---- MODULE Spec2Model ----
(***************************************************************************)
(* Transaction and query engine of the columnar store (transaction.go).    *)
(*                                                                         *)
(* A bitmap is modelled by the set of its set bits.  A column is modelled  *)
(* by a function whose domain is its presence bitmap E(c) and whose values *)
(* are the stored values.  Goroutines interleave at the granularity of the *)
(* shared accesses of transaction.go: the word-wise unlocked read of       *)
(* owner.fill in aquireTxn, and the three phases of Commit.                *)
(***************************************************************************)
EXTENDS Integers, Sequences, FiniteSets, TLC

\* ------------------------------------------------------------------ bounds
MaxRow == 1         \* row indices are 0..MaxRow
WordBits == 1       \* bits per bitmap word (scaled down: a bitmap of MaxRow+1 rows spans two words)
MaxVal == 1         \* values put and amounts added are 1..MaxVal
MaxSum == 2         \* no stored value exceeds MaxSum
MaxQueue == 1       \* update records a Txn holds in all of its queues together (one more in the Range workload)
MaxExtra == 1       \* extra column names given to With/Without/Union
MaxAcquire == 2     \* transactions acquired in a run
MaxOps == 2         \* filters and queueing operations called in a run (one more in the write workload)

\* --------------------------------------------------------------- constants
UpdatePut == 0
UpdateAdd == 1
expireColumn == "expire"

Rows == 0..MaxRow
Vals == 1..MaxVal
Txns == {"T1", "T2"}                \* the Txn objects of the pool, one goroutine each
Registered == {"a", expireColumn}   \* the columns of the collection's registry
Names == Registered \cup {"z"}      \* "z" is a name no column is registered under
TypedFilters == {"WithFloat", "WithInt", "WithUint"}

VARIABLES
  fill,     \* owner.fill: the rows visible to new transactions
  cols,     \* owner.cols: column name -> column (row -> value, on its presence bitmap)
  txn,      \* the fields of every Txn object
  pc,       \* where every Txn object is: "pool", "clone", "held", "update", "insert"
  clone,    \* aquireTxn in progress: [at |-> next word to copy, n |-> words to copy, seen |-> values fill had]
  commit,   \* Commit in progress: deletes, inserts and updates as they were when Commit was
            \* called, and whether the Txn's DeleteAll was the call right before it
  mode,     \* the run's workload: [calls, holders, ops, queue, cursor], see Workloads
  acquired, \* the number of transactions acquired so far
  ops,      \* the number of filters and queueing operations called so far
  settled,  \* the holder called Commit or Rollback and queued nothing since
  last,     \* the operation that completed last: [op, txn, note]
  numbers,  \* a numeric column on its own (row -> value, on its presence bitmap)
  other,    \* a bitmap of the column's caller
  size,     \* len(c.data) of the numeric column on its own
  lock,     \* owner.lock: the Txn whose Commit holds it, "" when it is free
  snap      \* per Txn, since its acquire: the rows owner.fill held while it was cloned
            \* (fill), and the rows the Txn inserted (own); kept in the runs that call
            \* Union, the one operation that adds rows to a working index

vars == <<fill, cols, txn, pc, clone, commit, mode, acquired, ops, settled, last, numbers, other, size, lock, snap>>

\* ----------------------------------------------------------------- bitmap
Max(S) == CHOOSE x \in S : \A y \in S : y <= x
Min(S) == CHOOSE x \in S : \A y \in S : x <= y

\* len(bitmap): the number of words up to the highest set bit
Words(b) == IF b = {} THEN 0 ELSE (Max(b) \div WordBits) + 1

\* the bits of word w of bitmap b
WordAt(b, w) == {x \in b : x \div WordBits = w}

\* ----------------------------------------------------------------- column
\* E(c): the presence bitmap of a column
Presence(c) == DOMAIN c

IntersectKeepsAbsent(c, bm) == bm \ Presence(c)

\* Column.Intersect(&bm), Difference(&bm), Union(&bm)
Intersect(c, bm) == bm \cap Presence(c)
Difference(c, bm) == bm \ Presence(c)
ColUnion(c, bm) == bm \cup Presence(c)

\* Column.DeleteMany(&bm)
DeleteMany(c, bm) == [x \in Presence(c) \ bm |-> c[x]]

\* one Update applied to a column
ApplyUpdate(c, u) ==
  LET old == IF u.Index \in Presence(c) THEN c[u.Index] ELSE 0
      new == IF u.Kind = UpdateAdd THEN old + u.Value ELSE u.Value
  IN [x \in Presence(c) \cup {u.Index} |-> IF x = u.Index THEN new ELSE c[x]]

\* Column.UpdateMany(updates): the records in order
RECURSIVE UpdateMany(_, _)
UpdateMany(c, us) ==
  IF us = <<>> THEN c ELSE UpdateMany(ApplyUpdate(c, Head(us)), Tail(us))

\* Column.Value(idx) and, for a column with the numeric capability, Float64(idx),
\* Int64(idx), Uint64(idx): the value and whether it is present.  The stored
\* values are 0..MaxSum, which each of the conversions leaves as it is.
Value(c, x) == IF x \in Presence(c) THEN [v |-> c[x], ok |-> TRUE] ELSE [v |-> 0, ok |-> FALSE]
Number(c, x) == Value(c, x)

\* ------------------------------------------------------------- collection
\* the registered columns that have the numeric capability: the column "a" holds
\* values of any type and has none
numerical(name) == name = expireColumn

\* owner.cols.Load(name)
Load(name) == name \in DOMAIN cols

\* owner.next(): the lowest index that is neither in fill nor reserved by an
\* in-flight inserts bitmap
Reserved == fill \cup UNION {txn[t].inserts : t \in Txns}
HasNext == Rows \ Reserved # {}
next == Min(Rows \ Reserved)

\* -------------------------------------------------------------------- Txn
NewTxn == [index |-> {}, deletes |-> {}, inserts |-> {}, updates |-> <<>>, columns |-> <<>>]

NoClone == [at |-> 0, n |-> 0, seen |-> {}]

Op(name, t, note) == [op |-> name, txn |-> t, note |-> note]

NoSnap == [fill |-> {}, own |-> {}]

NoCommit == [deletes |-> {}, inserts |-> {}, updates |-> <<>>, after |-> ""]

\* the collection at the start: empty, or holding the rows 0..MaxRow, each inserted
\* as {"a": 1}, the last of them with a time-to-live, and committed
InitCollections ==
  {[fill |-> {}, a |-> <<>>, expire |-> <<>>],
   [fill |-> Rows, a |-> [x \in Rows |-> 1], expire |-> [x \in {MaxRow} |-> 1]]}

\* the operations of a Cursor that a Range callback calls
CursorKinds == {"Delete", "Update", "Add", "UpdateAt", "AddAt"}

\* the workloads: the operations a run's callers use besides acquire, Commit,
\* Rollback and release, the number of goroutines holding a Txn at once, the
\* number of operations called in the run, the number of update records a Txn
\* holds at once, and the Cursor operations its Range callbacks use
Workloads ==
  {[calls |-> {"Insert", "DeleteAt", "DeleteAll"}, holders |-> 2, ops |-> MaxOps + 1, queue |-> MaxQueue,
    cursor |-> {}],
   [calls |-> {"With", "Without", "Union", "WithValue"} \cup TypedFilters, holders |-> 1, ops |-> MaxOps,
    queue |-> MaxQueue, cursor |-> {}],
   [calls |-> {"Range"}, holders |-> 1, ops |-> MaxOps, queue |-> MaxQueue + 1, cursor |-> CursorKinds],
   [calls |-> {"Range", "Insert"}, holders |-> 1, ops |-> MaxOps, queue |-> MaxQueue,
    cursor |-> {"DeleteUpdate"}],
   [calls |-> {"Union", "Insert"}, holders |-> 2, ops |-> MaxOps, queue |-> MaxQueue, cursor |-> {}],
   [calls |-> {"DeleteAll", "With"}, holders |-> 1, ops |-> MaxOps, queue |-> MaxQueue, cursor |-> {}],
   [calls |-> {"Insert", "InsertWithTTL", "DeleteIf", "DeleteAll", "ReadAt"}, holders |-> 1, ops |-> MaxOps,
    queue |-> MaxQueue, cursor |-> {}]}

Holders == {t \in Txns : pc[t] # "pool"}

\* the run keeps snap
Snapshots == "Union" \in mode.calls

Init ==
  /\ \E c \in InitCollections :
       /\ fill = c.fill
       /\ cols = [n \in Registered |-> IF n = "a" THEN c.a ELSE c.expire]
  /\ mode \in Workloads
  /\ txn = [t \in Txns |-> NewTxn]
  /\ pc = [t \in Txns |-> "pool"]
  /\ clone = [t \in Txns |-> NoClone]
  /\ commit = [t \in Txns |-> NoCommit]
  /\ acquired = 0
  /\ ops = 0
  /\ settled = [t \in Txns |-> TRUE]
  /\ last = Op("init", "", <<>>)
  /\ numbers = <<>>
  /\ other = {}
  /\ size = 0
  /\ lock = ""
  /\ snap = [t \in Txns |-> NoSnap]

\* ------------------------------------------------- acquisition, release
\* aquireTxn: txns.Get, owner, columns[:0], and the first word of owner.fill.Clone
aquireTxnStart(T, f) == [T EXCEPT !.columns = <<>>, !.index = WordAt(f, 0)]

\* owner.fill.Clone(&txn.index), one more word: fill is read without owner.lock
CloneWord(T, f, w) == [T EXCEPT !.index = @ \cup WordAt(f, w)]

\* every aquireTxn in progress has seen fill take the value f
Observe(f) ==
  clone' = [u \in Txns |->
              IF pc[u] = "clone" THEN [clone[u] EXCEPT !.seen = @ \cup {f}] ELSE clone[u]]

Acquire(t) ==
  /\ pc[t] = "pool"
  /\ txn' = [txn EXCEPT ![t] = aquireTxnStart(txn[t], fill)]
  /\ IF Words(fill) <= 1
       THEN /\ pc' = [pc EXCEPT ![t] = "held"]
            /\ clone' = clone
            /\ last' = Op("aquireTxn", t, {fill})
       ELSE /\ pc' = [pc EXCEPT ![t] = "clone"]
            /\ clone' = [clone EXCEPT ![t] = [at |-> 1, n |-> Words(fill), seen |-> {fill}]]
            /\ last' = Op("clone", t, <<>>)
  /\ acquired < MaxAcquire
  /\ Cardinality(Holders) < mode.holders
  /\ acquired' = acquired + 1
  /\ settled' = [settled EXCEPT ![t] = FALSE]
  /\ snap' = IF Snapshots THEN [snap EXCEPT ![t] = [fill |-> fill, own |-> {}]] ELSE snap
  /\ UNCHANGED <<fill, cols, commit, ops, mode, numbers, other, size, lock>>

CloneStep(t) ==
  /\ pc[t] = "clone"
  /\ txn' = [txn EXCEPT ![t] = CloneWord(txn[t], fill, clone[t].at)]
  /\ IF clone[t].at + 1 >= clone[t].n
       THEN /\ pc' = [pc EXCEPT ![t] = "held"]
            /\ clone' = [clone EXCEPT ![t] = NoClone]
            /\ last' = Op("aquireTxn", t, clone[t].seen)
       ELSE /\ pc' = pc
            /\ clone' = [clone EXCEPT ![t].at = @ + 1]
            /\ last' = Op("clone", t, <<>>)
  /\ snap' = IF Snapshots THEN [snap EXCEPT ![t].fill = @ \cup fill] ELSE snap
  /\ UNCHANGED <<fill, cols, commit, ops, settled, acquired, mode, numbers, other, size, lock>>

\* releaseTxn: the caller has performed Commit or Rollback
Release(t) ==
  /\ pc[t] = "held"
  /\ settled[t]
  /\ pc' = [pc EXCEPT ![t] = "pool"]
  /\ last' = Op("releaseTxn", t, <<>>)
  /\ UNCHANGED <<fill, cols, txn, clone, commit, ops, settled, acquired, mode, numbers, other, size, lock, snap>>

\* ------------------------------------------------------ column resolution
Cached(T, name) == \E i \in DOMAIN T.columns : T.columns[i] = name

\* columnAt(name): the boolean it returns, and the Txn with its cache afterwards
columnAtOk(T, name) == Cached(T, name) \/ Load(name)
columnAt(T, name) ==
  IF Cached(T, name) \/ ~Load(name) THEN T ELSE [T EXCEPT !.columns = Append(@, name)]

\* ----------------------------------------------------------------- filters
WithOneSkipsMissing(T, name) ==
  IF columnAtOk(T, name)
    THEN [columnAt(T, name) EXCEPT !.index = Intersect(cols[name], @)]
    ELSE T

\* one column of Txn.With: a missing column clears the index
WithOne(T, name) ==
  IF columnAtOk(T, name)
    THEN [columnAt(T, name) EXCEPT !.index = Intersect(cols[name], @)]
    ELSE [T EXCEPT !.index = {}]

WithoutOneClearsMissing(T, name) ==
  IF columnAtOk(T, name)
    THEN [columnAt(T, name) EXCEPT !.index = Difference(cols[name], @)]
    ELSE [T EXCEPT !.index = {}]

UnionOneKeepsCommon(T, name) ==
  IF columnAtOk(T, name)
    THEN [columnAt(T, name) EXCEPT !.index = Intersect(cols[name], @)]
    ELSE T

\* one column of Txn.Without and of Txn.Union: a missing column is skipped
WithoutOne(T, name) ==
  IF columnAtOk(T, name)
    THEN [columnAt(T, name) EXCEPT !.index = Difference(cols[name], @)]
    ELSE T

UnionOne(T, name) ==
  IF columnAtOk(T, name)
    THEN [columnAt(T, name) EXCEPT !.index = ColUnion(cols[name], @)]
    ELSE T

\* the loop over the extra column names, left to right
RECURSIVE WithExtra(_, _)
WithExtra(T, extra) ==
  IF extra = <<>> THEN T ELSE WithExtra(WithOne(T, Head(extra)), Tail(extra))

RECURSIVE WithoutExtra(_, _)
WithoutExtra(T, extra) ==
  IF extra = <<>> THEN T ELSE WithoutExtra(WithoutOne(T, Head(extra)), Tail(extra))

RECURSIVE UnionExtra(_, _)
UnionExtra(T, extra) ==
  IF extra = <<>> THEN T ELSE UnionExtra(UnionOne(T, Head(extra)), Tail(extra))

\* Txn.With, Txn.Without, Txn.Union
With(T, column, extra) == WithExtra(WithOne(T, column), extra)
Without(T, column, extra) == WithoutExtra(WithoutOne(T, column), extra)
Union(T, column, extra) == UnionExtra(UnionOne(T, column), extra)

\* Txn.Count
Count(T) == Cardinality(T.index)

WithValueKeepsAbsent(T, column, predicate) ==
  IF columnAtOk(T, column)
    THEN [columnAt(T, column) EXCEPT
            !.index = {x \in @ : Value(cols[column], x).ok => Value(cols[column], x).v \in predicate}]
    ELSE T

\* Txn.WithValue: predicate is the set of values it accepts
WithValue(T, column, predicate) ==
  IF columnAtOk(T, column)
    THEN [columnAt(T, column) EXCEPT
            !.index = {x \in @ : Value(cols[column], x).ok /\ Value(cols[column], x).v \in predicate}]
    ELSE T

\* Txn.WithFloat, Txn.WithInt, Txn.WithUint: the same code over Float64, Int64, Uint64
WithNumber(T, column, predicate) ==
  IF columnAtOk(T, column)
    THEN IF numerical(column)
           THEN [columnAt(T, column) EXCEPT
                   !.index = {x \in @ : Number(cols[column], x).ok /\ Number(cols[column], x).v \in predicate}]
           ELSE columnAt(T, column)
    ELSE T

ExtraArgs == UNION {[1..k -> Names] : k \in 0..MaxExtra}

Filter(t, name, T, note) ==
  /\ pc[t] = "held"
  /\ txn' = [txn EXCEPT ![t] = T]
  /\ name \in mode.calls
  /\ ops < mode.ops
  /\ ops' = ops + 1
  /\ last' = Op(name, t, note)
  /\ UNCHANGED <<fill, cols, pc, clone, commit, settled, acquired, mode, numbers, other, size, lock, snap>>

TxnWith(t) ==
  \E c \in Names, e \in ExtraArgs : Filter(t, "With", With(txn[t], c, e), [names |-> <<c>> \o e, index |-> txn[t].index])

TxnWithout(t) ==
  \E c \in Names, e \in ExtraArgs : Filter(t, "Without", Without(txn[t], c, e), [names |-> <<c>> \o e, index |-> txn[t].index])

TxnUnion(t) ==
  \E c \in Names, e \in ExtraArgs : Filter(t, "Union", Union(txn[t], c, e), [names |-> <<c>> \o e, index |-> txn[t].index])

TxnWithValue(t) ==
  \E c \in Names, p \in SUBSET Vals :
    Filter(t, "WithValue", WithValue(txn[t], c, p), [names |-> <<c>>, index |-> txn[t].index, pred |-> p])

\* Txn.ReadAt: the boolean it returns
ReadAtOk(T, i) == i \in T.index

\* Txn.ReadAt: a read, the Txn stays as it is
TxnReadAt(t) ==
  \E i \in Rows : Filter(t, "ReadAt", txn[t], [i |-> i, ok |-> ReadAtOk(txn[t], i)])

TxnWithNumber(t) ==
  \E k \in TypedFilters, c \in Names, p \in SUBSET Vals :
    Filter(t, k, WithNumber(txn[t], c, p), [names |-> <<c>>, index |-> txn[t].index, pred |-> p])

\* ------------------------------------------------------ mutation queueing
\* the number of update records in all the queues of a Txn
RECURSIVE QueueLen(_)
QueueLen(qs) == IF qs = <<>> THEN 0 ELSE Len(Head(qs).update) + QueueLen(Tail(qs))

\* the first queue named column, 0 when there is none
QueueAt(T, column) ==
  IF \E i \in DOMAIN T.updates : T.updates[i].name = column
    THEN Min({i \in DOMAIN T.updates : T.updates[i].name = column})
    ELSE 0

Update(kind, idx, value) == [Kind |-> kind, Index |-> idx, Value |-> value]

EnqueueAtFront(T, column, u) ==
  IF QueueAt(T, column) # 0
    THEN [T EXCEPT !.updates[QueueAt(T, column)].update = <<u>> \o @]
    ELSE [T EXCEPT !.updates = Append(@, [name |-> column, update |-> <<u>>])]

\* Cursor.UpdateAt / Cursor.AddAt: append to the queue named column, creating it if needed
EnqueueAt(T, column, u) ==
  IF QueueAt(T, column) # 0
    THEN [T EXCEPT !.updates[QueueAt(T, column)].update = Append(@, u)]
    ELSE [T EXCEPT !.updates = Append(@, [name |-> column, update |-> <<u>>])]

UpdateAt(T, idx, column, value) == EnqueueAt(T, column, Update(UpdatePut, idx, value))
AddAt(T, idx, column, amount) == EnqueueAt(T, column, Update(UpdateAdd, idx, amount))

\* Cursor.Update / Cursor.Add: append to the queue the cursor is bound to
CursorUpdate(T, q, idx, value) ==
  [T EXCEPT !.updates[q].update = Append(@, Update(UpdatePut, idx, value))]
CursorAdd(T, q, idx, amount) ==
  [T EXCEPT !.updates[q].update = Append(@, Update(UpdateAdd, idx, amount))]

\* Cursor.Delete
CursorDelete(T, idx) == [T EXCEPT !.deletes = @ \cup {idx}]

DeleteAtUnchecked(T, i) == [T EXCEPT !.deletes = @ \cup {i}]

\* Txn.DeleteAt: the boolean it returns, and the Txn afterwards
DeleteAtOk(T, i) == i \in T.index
DeleteAt(T, i) == IF ~DeleteAtOk(T, i) THEN T ELSE [T EXCEPT !.deletes = @ \cup {i}]

DeleteIfStopsEarly(T, fn) ==
  [T EXCEPT !.deletes = @ \cup {x \in T.index : \A y \in T.index : y <= x => y \in fn}]

\* Txn.DeleteIf: fn is the set of rows it returns true for
DeleteIf(T, fn) == [T EXCEPT !.deletes = @ \cup {x \in T.index : x \in fn}]

\* Txn.DeleteAll
DeleteAll(T) == [T EXCEPT !.deletes = @ \cup T.index]

\* the records of the queue named column, none when there is no such queue
Records(qs, column) ==
  IF \E i \in DOMAIN qs : qs[i].name = column
    THEN qs[Min({i \in DOMAIN qs : qs[i].name = column})].update
    ELSE <<>>

RECURSIVE insertKeysUnchecked(_, _, _, _)
insertKeysUnchecked(T, idx, object, keys) ==
  IF keys = <<>> THEN T
  ELSE insertKeysUnchecked(UpdateAt(T, idx, Head(keys), object[Head(keys)]), idx, object, Tail(keys))

\* the loop of Txn.insert over the object: keys is an order the map is ranged in
RECURSIVE insertKeys(_, _, _, _)
insertKeys(T, idx, object, keys) ==
  IF keys = <<>> THEN T
  ELSE LET k == Head(keys)
           T1 == IF columnAtOk(T, k) THEN UpdateAt(columnAt(T, k), idx, k, object[k]) ELSE T
       IN insertKeys(T1, idx, object, Tail(keys))

insertIntoIndex(T, idx, object, keys, expireAt) ==
  LET T1 == insertKeys([T EXCEPT !.inserts = @ \cup {idx}, !.index = @ \cup {idx}], idx, object, keys)
  IN IF expireAt # 0 THEN UpdateAt(T1, idx, expireColumn, expireAt) ELSE T1

\* Txn.insert(object, expireAt) at the index idx that owner.next() returned
insert(T, idx, object, keys, expireAt) ==
  LET T1 == insertKeys([T EXCEPT !.inserts = @ \cup {idx}], idx, object, keys)
  IN IF expireAt # 0 THEN UpdateAt(T1, idx, expireColumn, expireAt) ELSE T1

\* the objects inserted, and the orders a map of them can be ranged in
Objects == UNION {[K -> Vals] : K \in SUBSET {"a", "z"}}
KeyOrders(object) ==
  {ks \in UNION {[1..n -> DOMAIN object] : n \in {Cardinality(DOMAIN object)}} :
     \A k \in DOMAIN object : \E i \in DOMAIN ks : ks[i] = k}

\* the amounts of the Add records of the queues qs, summed
RECURSIVE AddSum(_)
AddSum(us) ==
  IF us = <<>> THEN 0
  ELSE (IF Head(us).Kind = UpdateAdd THEN Head(us).Value ELSE 0) + AddSum(Tail(us))

RECURSIVE QueueAdds(_)
QueueAdds(qs) == IF qs = <<>> THEN 0 ELSE AddSum(Head(qs).update) + QueueAdds(Tail(qs))

RECURSIVE SumOver(_, _)
SumOver(f, S) == IF S = {} THEN 0 ELSE LET x == CHOOSE y \in S : TRUE IN f[x] + SumOver(f, S \ {x})

\* the model's bounds on what a Txn queues: MaxQueue records, and amounts that keep
\* every stored value within MaxSum
Bounded(t, T) ==
  /\ QueueLen(T.updates) <= mode.queue
  /\ QueueAdds(T.updates) > QueueAdds(txn[t].updates) =>
       MaxVal + SumOver([u \in Txns |-> QueueAdds(IF u = t THEN T.updates ELSE txn[u].updates)], Txns)
         <= MaxSum

MutateAtOnce(t, name, T, note) ==
  /\ pc[t] = "held"
  /\ Bounded(t, T)
  /\ txn' = [txn EXCEPT ![t] = T]
  /\ settled' = [settled EXCEPT ![t] = FALSE]
  /\ name \in mode.calls
  /\ ops < mode.ops
  /\ ops' = ops + 1
  /\ last' = Op(name, t, note)
  /\ fill' = fill \ T.deletes
  /\ snap' = IF Snapshots THEN [snap EXCEPT ![t].own = @ \cup T.inserts] ELSE snap
  /\ UNCHANGED <<cols, pc, clone, commit, acquired, mode, numbers, other, size, lock>>

\* a queueing operation of Txn t: it changes the Txn and nothing else
Mutate(t, name, T, note) ==
  /\ pc[t] = "held"
  /\ Bounded(t, T)
  /\ txn' = [txn EXCEPT ![t] = T]
  /\ settled' = [settled EXCEPT ![t] = FALSE]
  /\ name \in mode.calls
  /\ ops < mode.ops
  /\ ops' = ops + 1
  /\ last' = Op(name, t, note)
  /\ snap' = IF Snapshots THEN [snap EXCEPT ![t].own = @ \cup T.inserts] ELSE snap
  /\ UNCHANGED <<fill, cols, pc, clone, commit, acquired, mode, numbers, other, size, lock>>

TxnDeleteAt(t) ==
  \E i \in Rows :
    Mutate(t, "DeleteAt", DeleteAt(txn[t], i), [i |-> i, ok |-> DeleteAtOk(txn[t], i)])

TxnDeleteIf(t) ==
  \E fn \in SUBSET Rows : Mutate(t, "DeleteIf", DeleteIf(txn[t], fn), [fn |-> fn])

TxnDeleteAll(t) == Mutate(t, "DeleteAll", DeleteAll(txn[t]), <<>>)

TxnInsert(t) ==
  /\ HasNext
  /\ \E object \in Objects : \E keys \in KeyOrders(object) :
       Mutate(t, "Insert", insert(txn[t], next, object, keys, 0), [idx |-> next, object |-> object])

TxnInsertWithTTL(t) ==
  /\ HasNext
  /\ \E object \in Objects : \E keys \in KeyOrders(object) : \E expireAt \in Vals :
       Mutate(t, "InsertWithTTL", insert(txn[t], next, object, keys, expireAt), next)

\* ------------------------------------------------------------ iteration
\* the set bits of a bitmap in ascending order
RECURSIVE Ascending(_)
Ascending(b) == IF b = {} THEN <<>> ELSE <<Min(b)>> \o Ascending(b \ {Min(b)})

\* what a Range callback does with its cursor: one of Cursor.Delete, Update, Add,
\* UpdateAt, AddAt, or Delete followed by Update
CursorOps ==
  {[k |-> "Delete", n |-> "", v |-> 0]}
    \cup [k : {"Update", "Add", "DeleteUpdate"}, n : {""}, v : Vals]
    \cup [k : {"UpdateAt", "AddAt"}, n : Names, v : Vals]

CursorDo(T, q, idx, op) ==
  CASE op.k = "Delete" -> CursorDelete(T, idx)
    [] op.k = "Update" -> CursorUpdate(T, q, idx, op.v)
    [] op.k = "Add" -> CursorAdd(T, q, idx, op.v)
    [] op.k = "UpdateAt" -> UpdateAt(T, idx, op.n, op.v)
    [] op.k = "AddAt" -> AddAt(T, idx, op.n, op.v)
    [] op.k = "DeleteUpdate" -> CursorUpdate(CursorDelete(T, idx), q, idx, op.v)

\* a callback fn: on the rows of fn.on it performs fn.op, and it returns false
\* from the row fn.halt on
Callbacks == [on : SUBSET Rows, op : CursorOps, halt : Rows]

\* txn.index.Range(fn): the rows in ascending order, until fn returns false
RECURSIVE RangeRows(_, _, _, _)
RangeRows(T, q, rows, fn) ==
  IF rows = <<>> THEN T
  ELSE LET x == Head(rows)
           T1 == IF x \in fn.on THEN CursorDo(T, q, x, fn.op) ELSE T
       IN IF x >= fn.halt THEN T1 ELSE RangeRows(T1, q, Tail(rows), fn)

\* the rows fn is invoked on, in the order of the invocations
RECURSIVE RangeVisits(_, _)
RangeVisits(rows, fn) ==
  IF rows = <<>> THEN <<>>
  ELSE IF Head(rows) >= fn.halt THEN <<Head(rows)>>
  ELSE <<Head(rows)>> \o RangeVisits(Tail(rows), fn)

cursorForAppends(T, columnName) ==
  [columnAt(T, columnName) EXCEPT !.updates = Append(@, [name |-> columnName, update |-> <<>>])]

\* Txn.cursorFor: the Txn with the column cached and its update queue created
cursorFor(T, columnName) ==
  LET T1 == columnAt(T, columnName)
  IN IF QueueAt(T1, columnName) # 0 THEN T1
     ELSE [T1 EXCEPT !.updates = Append(@, [name |-> columnName, update |-> <<>>])]

\* Txn.Range: the error it returns (TRUE: an error), and the Txn afterwards
RangeErr(T, column) == ~columnAtOk(T, column)
Range(T, column, fn) ==
  IF RangeErr(T, column) THEN T
  ELSE LET T1 == cursorFor(T, column)
       IN RangeRows(T1, QueueAt(T1, column), Ascending(T.index), fn)

TxnRange(t) ==
  \E c \in Names, fn \in Callbacks :
    /\ fn.on \subseteq txn[t].index
    /\ fn.op.k \in mode.cursor
    /\ Mutate(t, "Range", Range(txn[t], c, fn),
              [column |-> c, err |-> RangeErr(txn[t], c), halt |-> fn.halt,
               visits |-> IF RangeErr(txn[t], c) THEN <<>>
                          ELSE RangeVisits(Ascending(txn[t].index), fn)])

\* ------------------------------------------------------- commit, rollback
deletePendingKeepsDeletes(T) == T

\* Txn.deletePending: the columns, fill and the Txn afterwards
deletePendingCols(T, C) ==
  IF T.deletes = {} THEN C ELSE [n \in DOMAIN C |-> DeleteMany(C[n], T.deletes)]
deletePendingFill(T, f) == IF T.deletes = {} THEN f ELSE f \ T.deletes
deletePending(T) == [T EXCEPT !.deletes = {}]

\* Txn.updatePending over the queues qs: the columns afterwards
RECURSIVE updatePendingCols(_, _)
updatePendingCols(qs, C) ==
  IF qs = <<>> THEN C
  ELSE LET u == Head(qs)
       IN IF Len(u.update) = 0 \/ u.name \notin DOMAIN C
            THEN updatePendingCols(Tail(qs), C)
            ELSE updatePendingCols(Tail(qs), [C EXCEPT ![u.name] = UpdateMany(@, u.update)])

\* Txn.updatePending: the Txn afterwards; a queue no column is registered under is skipped
updatePending(T) ==
  [T EXCEPT !.updates =
     [i \in DOMAIN @ |-> IF Len(@[i].update) = 0 \/ ~Load(@[i].name)
                           THEN @[i] ELSE [@[i] EXCEPT !.update = <<>>]]]

insertPendingSkipsFill(T, f) == f

\* Txn.insertPending: fill and the Txn afterwards
insertPendingFill(T, f) == IF T.inserts # {} THEN f \cup T.inserts ELSE f
insertPending(T) == [T EXCEPT !.inserts = {}]

\* Txn.Commit, its three phases in order
CommitDelete(t) ==
  /\ pc[t] = "held"
  /\ cols' = deletePendingCols(txn[t], cols)
  /\ fill' = deletePendingFill(txn[t], fill)
  /\ txn' = [txn EXCEPT ![t] = deletePending(@)]
  /\ commit' = [commit EXCEPT ![t] = [deletes |-> txn[t].deletes, inserts |-> txn[t].inserts,
                                       updates |-> txn[t].updates,
                                       after |-> IF last.txn = t /\ last.op = "DeleteAll" THEN "DeleteAll" ELSE ""]]
  /\ pc' = [pc EXCEPT ![t] = "update"]
  /\ Observe(fill')
  /\ last' = Op("deletePending", t, <<>>)
  /\ UNCHANGED <<ops, settled, acquired, mode, numbers, other, size, lock, snap>>

CommitUpdate(t) ==
  /\ pc[t] = "update"
  /\ cols' = updatePendingCols(txn[t].updates, cols)
  /\ txn' = [txn EXCEPT ![t] = updatePending(@)]
  /\ pc' = [pc EXCEPT ![t] = "insert"]
  /\ last' = Op("updatePending", t, <<>>)
  /\ UNCHANGED <<fill, clone, commit, ops, settled, acquired, mode, numbers, other, size, lock, snap>>

CommitInsert(t) ==
  /\ pc[t] = "insert"
  /\ fill' = insertPendingFill(txn[t], fill)
  /\ txn' = [txn EXCEPT ![t] = insertPending(@)]
  /\ pc' = [pc EXCEPT ![t] = "held"]
  /\ commit' = [commit EXCEPT ![t] = NoCommit]
  /\ settled' = [settled EXCEPT ![t] = TRUE]
  /\ Observe(fill')
  /\ last' = Op("Commit", t, commit[t])
  /\ UNCHANGED <<cols, ops, acquired, mode, numbers, other, size, lock, snap>>

\* a Txn with nothing pending: no deletes, no inserts, only empty update queues
Clean(T) ==
  /\ T.deletes = {}
  /\ T.inserts = {}
  /\ \A i \in DOMAIN T.updates : Len(T.updates[i].update) = 0

\* the names of the update queues of a Txn, in order
QueueNames(T) == [i \in DOMAIN T.updates |-> T.updates[i].name]

RollbackKeepsInserts(T) ==
  [T EXCEPT !.deletes = {},
            !.updates = [i \in DOMAIN @ |-> [@[i] EXCEPT !.update = <<>>]]]

RollbackResetsIndex(T) ==
  [T EXCEPT !.index = {}, !.deletes = {}, !.inserts = {},
            !.updates = [i \in DOMAIN @ |-> [@[i] EXCEPT !.update = <<>>]]]

\* Txn.Rollback
Rollback(T) ==
  [T EXCEPT !.deletes = {}, !.inserts = {},
            !.updates = [i \in DOMAIN @ |-> [@[i] EXCEPT !.update = <<>>]]]

TxnRollback(t) ==
  /\ pc[t] = "held"
  /\ txn' = [txn EXCEPT ![t] = Rollback(@)]
  /\ settled' = [settled EXCEPT ![t] = TRUE]
  /\ last' = Op("Rollback", t, ~Clean(txn[t]))
  /\ UNCHANGED <<fill, cols, pc, clone, commit, ops, acquired, mode, numbers, other, size, lock, snap>>

Next ==
  \E t \in Txns :
    \/ Acquire(t)
    \/ CloneStep(t)
    \/ Release(t)
    \/ TxnWith(t)
    \/ TxnWithout(t)
    \/ TxnUnion(t)
    \/ TxnWithValue(t)
    \/ TxnWithNumber(t)
    \/ TxnReadAt(t)
    \/ TxnDeleteAt(t)
    \/ TxnDeleteIf(t)
    \/ TxnDeleteAll(t)
    \/ TxnInsert(t)
    \/ TxnInsertWithTTL(t)
    \/ TxnRange(t)
    \/ CommitDelete(t)
    \/ CommitUpdate(t)
    \/ CommitInsert(t)
    \/ TxnRollback(t)

Spec == Init /\ [][Next]_vars

\* ------------------------------------------------- a numeric column alone
\* The operations of a numeric column as z_numbers_test.go calls them, on a column
\* made empty and a bitmap the caller passes in.
engine == <<fill, cols, txn, pc, clone, commit, mode, acquired, ops, settled, lock, snap>>

\* the values a column stores
Stored == 0..MaxSum

\* len(c.data) once the storage covers idx
Grow(n, idx) == IF idx < n THEN n ELSE idx + 1

\* Column.Contains(idx)
Contains(c, idx) == idx \in Presence(c)

\* Column.Value(idx), Float64(idx), Int64(idx), Uint64(idx) of a column whose storage
\* has n elements: the zero value and false where nothing is stored
ValueAt(c, n, idx) ==
  IF idx < n /\ Contains(c, idx) THEN [v |-> c[idx], ok |-> TRUE] ELSE [v |-> 0, ok |-> FALSE]
Float64(c, n, idx) == ValueAt(c, n, idx)
Int64(c, n, idx) == ValueAt(c, n, idx)
Uint64(c, n, idx) == ValueAt(c, n, idx)

Reads == {"Value", "Float64", "Int64", "Uint64"}
ReadAs(kind, c, n, idx) ==
  CASE kind = "Value" -> ValueAt(c, n, idx)
    [] kind = "Float64" -> Float64(c, n, idx)
    [] kind = "Int64" -> Int64(c, n, idx)
    [] kind = "Uint64" -> Uint64(c, n, idx)

ColumnDeleteKeepsValue(c, idx) == c

\* Column.Update(idx, value) and Column.Delete(idx)
ColumnUpdate(c, idx, value) == [x \in Presence(c) \cup {idx} |-> IF x = idx THEN value ELSE c[x]]
ColumnDelete(c, idx) == [x \in Presence(c) \ {idx} |-> c[x]]

ColumnInit ==
  /\ numbers = <<>>
  /\ other = {}
  /\ size = 0
  /\ lock = ""
  /\ snap = <<>>
  /\ last = Op("make", "", <<>>)
  /\ fill = {}
  /\ cols = <<>>
  /\ txn = <<>>
  /\ pc = <<>>
  /\ clone = <<>>
  /\ commit = <<>>
  /\ mode = <<>>
  /\ acquired = 0
  /\ ops = 0
  /\ settled = <<>>

DoUpdate ==
  \E idx \in Rows, value \in Stored :
    /\ numbers' = ColumnUpdate(numbers, idx, value)
    /\ size' = Grow(size, idx)
    /\ last' = Op("Update", "", [idx |-> idx, value |-> value])
    /\ UNCHANGED <<other, engine>>

DoDelete ==
  \E idx \in Rows :
    /\ numbers' = ColumnDelete(numbers, idx)
    /\ last' = Op("Delete", "", [idx |-> idx])
    /\ UNCHANGED <<other, size, engine>>

DoDeleteMany ==
  \E bm \in SUBSET Rows :
    /\ numbers' = DeleteMany(numbers, bm)
    /\ last' = Op("DeleteMany", "", [bm |-> bm])
    /\ UNCHANGED <<other, size, engine>>

DoIntersect ==
  \E bm \in SUBSET Rows :
    /\ other' = Intersect(numbers, bm)
    /\ last' = Op("Intersect", "", [bm |-> bm])
    /\ UNCHANGED <<numbers, size, engine>>

DoDifference ==
  \E bm \in SUBSET Rows :
    /\ other' = Difference(numbers, bm)
    /\ last' = Op("Difference", "", [bm |-> bm])
    /\ UNCHANGED <<numbers, size, engine>>

DoUnion ==
  \E bm \in SUBSET Rows :
    /\ other' = ColUnion(numbers, bm)
    /\ last' = Op("Union", "", [bm |-> bm])
    /\ UNCHANGED <<numbers, size, engine>>

\* a read of the column at a row, within the storage or one past the last row
DoRead ==
  \E kind \in Reads, idx \in 0..(MaxRow + 1) :
    /\ last' = Op(kind, "", [idx |-> idx, read |-> ReadAs(kind, numbers, size, idx)])
    /\ UNCHANGED <<numbers, other, size, engine>>

ColumnNext ==
  \/ DoRead
  \/ DoUpdate
  \/ DoDelete
  \/ DoDeleteMany
  \/ DoIntersect
  \/ DoDifference
  \/ DoUnion

SpecColumn == ColumnInit /\ [][ColumnNext]_vars

\* ------------------------------------------- Commit, one access at a time
\* Commit at the granularity of its accesses to the collection: the DeleteMany of
\* the columns, owner.lock.Lock, the set operation on owner.fill, owner.lock.Unlock,
\* the Clear of the Txn's bitmap, and updatePending.  Two goroutines hold a Txn
\* each, with work staged on a collection whose last row is free.
StagedFill == Rows \ {MaxRow}

\* what a held Txn has staged: DeleteAt of rows of its index, and nothing else, or
\* a Put into the expire column at a row of its index by a Range, or one Insert
\* of {"a": 1} at the free row
Staged ==
  {[index |-> StagedFill, deletes |-> d, inserts |-> w.inserts, updates |-> w.updates,
    columns |-> w.columns] :
     d \in SUBSET StagedFill,
     w \in {[inserts |-> {}, updates |-> <<>>, columns |-> <<>>],
            [inserts |-> {},
             updates |-> <<[name |-> expireColumn, update |-> <<Update(UpdatePut, 0, 1)>>]>>,
             columns |-> <<expireColumn>>],
            [inserts |-> {MaxRow},
             updates |-> <<[name |-> "a", update |-> <<Update(UpdatePut, MaxRow, 1)>>]>>,
             columns |-> <<"a">>]}}

CommitInit ==
  /\ fill = StagedFill
  /\ cols = [n \in Registered |-> IF n = "a" THEN [x \in StagedFill |-> 1] ELSE <<>>]
  /\ txn \in [Txns -> Staged]
  /\ \A t, u \in Txns : t # u => txn[t].inserts \cap txn[u].inserts = {}
  /\ pc = [t \in Txns |-> "held"]
  /\ clone = [t \in Txns |-> NoClone]
  /\ commit = [t \in Txns |-> NoCommit]
  /\ mode = [calls |-> {}, holders |-> Cardinality(Txns), ops |-> 0, queue |-> MaxQueue, cursor |-> {}]
  /\ acquired = Cardinality(Txns)
  /\ ops = 0
  /\ settled = [t \in Txns |-> FALSE]
  /\ last = Op("staged", "", <<>>)
  /\ lock = ""
  /\ snap = [t \in Txns |-> [fill |-> StagedFill, own |-> txn[t].inserts]]
  /\ numbers = <<>>
  /\ other = {}
  /\ size = 0

idle == <<clone, mode, acquired, ops, numbers, other, size, snap>>

\* the places of Commit at which the goroutine holds owner.lock
Locked == {"AndNot", "UnlockDelete", "Or", "UnlockInsert"}

\* Commit is called; deletePending returns at once when deletes is empty, else
\* it ranges over the columns with DeleteMany
deleteColumns(t) ==
  /\ pc[t] = "held"
  /\ commit' = [commit EXCEPT ![t] = [deletes |-> txn[t].deletes, inserts |-> txn[t].inserts,
                                       updates |-> txn[t].updates, after |-> ""]]
  /\ cols' = deletePendingCols(txn[t], cols)
  /\ pc' = [pc EXCEPT ![t] = IF txn[t].deletes = {} THEN "update" ELSE "LockDelete"]
  /\ last' = Op("DeleteMany", t, <<>>)
  /\ UNCHANGED <<fill, txn, settled, lock, idle>>

fillLockUnguarded(t) ==
  /\ pc[t] \in {"LockDelete", "LockInsert"}
  /\ lock' = t
  /\ pc' = [pc EXCEPT ![t] = IF pc[t] = "LockDelete" THEN "AndNot" ELSE "Or"]
  /\ last' = Op("Lock", t, <<>>)
  /\ UNCHANGED <<fill, cols, txn, commit, settled, idle>>

\* txn.owner.lock.Lock(): it returns once no goroutine holds the lock
fillLock(t) ==
  /\ pc[t] \in {"LockDelete", "LockInsert"}
  /\ lock = ""
  /\ lock' = t
  /\ pc' = [pc EXCEPT ![t] = IF pc[t] = "LockDelete" THEN "AndNot" ELSE "Or"]
  /\ last' = Op("Lock", t, <<>>)
  /\ UNCHANGED <<fill, cols, txn, commit, settled, idle>>

\* txn.owner.fill.AndNot(txn.deletes)
fillAndNot(t) ==
  /\ pc[t] = "AndNot"
  /\ fill' = deletePendingFill(txn[t], fill)
  /\ pc' = [pc EXCEPT ![t] = "UnlockDelete"]
  /\ last' = Op("AndNot", t, <<>>)
  /\ UNCHANGED <<cols, txn, commit, settled, lock, idle>>

\* txn.owner.fill.Or(txn.inserts)
fillOr(t) ==
  /\ pc[t] = "Or"
  /\ fill' = insertPendingFill(txn[t], fill)
  /\ pc' = [pc EXCEPT ![t] = "UnlockInsert"]
  /\ last' = Op("Or", t, <<>>)
  /\ UNCHANGED <<cols, txn, commit, settled, lock, idle>>

\* txn.owner.lock.Unlock()
fillUnlock(t) ==
  /\ pc[t] \in {"UnlockDelete", "UnlockInsert"}
  /\ lock' = ""
  /\ pc' = [pc EXCEPT ![t] = IF pc[t] = "UnlockDelete" THEN "ClearDelete" ELSE "ClearInsert"]
  /\ last' = Op("Unlock", t, <<>>)
  /\ UNCHANGED <<fill, cols, txn, commit, settled, idle>>

\* txn.deletes.Clear(): deletePending returns
clearDeletes(t) ==
  /\ pc[t] = "ClearDelete"
  /\ txn' = [txn EXCEPT ![t] = deletePending(@)]
  /\ pc' = [pc EXCEPT ![t] = "update"]
  /\ last' = Op("deletePending", t, <<>>)
  /\ UNCHANGED <<fill, cols, commit, settled, lock, idle>>

\* updatePending, and the test of insertPending: with no inserts Commit returns
updateColumns(t) ==
  /\ pc[t] = "update"
  /\ cols' = updatePendingCols(txn[t].updates, cols)
  /\ txn' = [txn EXCEPT ![t] = updatePending(@)]
  /\ pc' = [pc EXCEPT ![t] = IF txn[t].inserts = {} THEN "done" ELSE "LockInsert"]
  /\ settled' = [settled EXCEPT ![t] = txn[t].inserts = {}]
  /\ last' = Op("updatePending", t, commit[t])
  /\ UNCHANGED <<fill, commit, lock, idle>>

\* txn.inserts.Clear(): insertPending and Commit return
clearInserts(t) ==
  /\ pc[t] = "ClearInsert"
  /\ txn' = [txn EXCEPT ![t] = insertPending(@)]
  /\ pc' = [pc EXCEPT ![t] = "done"]
  /\ settled' = [settled EXCEPT ![t] = TRUE]
  /\ last' = Op("Commit", t, commit[t])
  /\ UNCHANGED <<fill, cols, commit, lock, idle>>

CommitStep(t) ==
  \/ deleteColumns(t)
  \/ fillLock(t)
  \/ fillAndNot(t)
  \/ fillOr(t)
  \/ fillUnlock(t)
  \/ clearDeletes(t)
  \/ updateColumns(t)
  \/ clearInserts(t)

CommitNext == \E t \in Txns : CommitStep(t)

\* every goroutine goes on running: a step of its Commit that can be taken is taken
SpecCommit == CommitInit /\ [][CommitNext]_vars /\ \A t \in Txns : WF_vars(CommitStep(t))

\* ------------------------------------------------------------------ claims
Holding == {"held", "update", "insert"}
CommitSteps == {"deletePending", "updatePending", "Commit"}
FilterOps == {"With", "Without", "Union", "WithValue"} \cup TypedFilters

\* C1: right after aquireTxn, the working index equals a value owner.fill had at
\* one instant during the acquire, also when another Txn commits meanwhile.
C1_Snapshot ==
  last.op = "aquireTxn" => txn[last.txn].index \in last.note

\* C2: the indices in a Txn's inserts are not in owner.fill before its Commit, and
\* when Commit returns every index that was in inserts before it is in owner.fill.
C2_InsertVisibility ==
  /\ \A t \in Txns : (pc[t] \in Holding => txn[t].inserts \cap fill = {})
  /\ (last.op = "Commit" => last.note.inserts \subseteq fill)

C2_Witness ==
  /\ last.op = "Commit"
  /\ last.note.inserts # {}
  /\ last.note.inserts \subseteq fill

\* C3: when Commit returns, no index that was in the Txn's deletes before the
\* commit is in owner.fill.
C3_DeleteVisibility ==
  last.op = "Commit" => last.note.deletes \cap fill = {}

\* C4: owner.fill and the columns are changed by the phases of Commit only; no
\* filter, queueing operation, Rollback, acquire or release changes them.
C4_Deferred ==
  [][(fill' # fill \/ cols' # cols) => last'.op \in CommitSteps]_vars

C4_Witness ==
  /\ last.op \in {"Insert", "InsertWithTTL", "Range", "DeleteAt", "DeleteIf", "DeleteAll"}
  /\ ~Clean(txn[last.txn])
  /\ txn[last.txn].deletes \subseteq fill
  /\ txn[last.txn].inserts \cap fill = {}

\* C5: once acquired, a Txn's index is changed by its own filters only (not by
\* its Insert, Delete*, Commit or Rollback, nor by another Txn's Commit), and a
\* filter never changes owner.fill.
C5_IndexIsolation ==
  [][/\ \A t \in Txns :
          ((pc[t] \in Holding /\ txn'[t].index # txn[t].index)
             => (last'.txn = t /\ last'.op \in FilterOps))
      /\ (last'.op \in FilterOps => fill' = fill)]_vars

C5_Witness ==
  /\ last.op = "Commit"
  /\ last.note.deletes \cup last.note.inserts # {}
  /\ \E t \in Txns \ {last.txn} : pc[t] = "held" /\ txn[t].index # fill

\* C6: when Commit returns, the Txn's deletes and inserts are empty and every one
\* of its update queues has length 0.
C6_CommitCleans ==
  last.op = "Commit" => Clean(txn[last.txn])

\* C7: every Txn handed out by aquireTxn has empty deletes, empty inserts and only
\* empty update queues (every earlier holder called Commit or Rollback before
\* releasing it).
C7_PoolSafety ==
  last.op = "aquireTxn" => Clean(txn[last.txn])

\* C8: after Rollback nothing is pending, and a Commit or a Rollback of a Txn
\* with nothing pending changes neither owner.fill, nor a column, nor the Txn.
C8_RollbackDiscards ==
  [][/\ (last'.op = "Rollback" => Clean(txn'[last'.txn]))
      /\ \A t \in Txns :
           ((Clean(txn[t]) /\ last'.txn = t /\ last'.op \in CommitSteps \cup {"Rollback"})
              => (fill' = fill /\ cols' = cols /\ txn'[t] = txn[t]))]_vars

C8_Witness ==
  /\ last.op = "Rollback"
  /\ last.note
  /\ Clean(txn[last.txn])

\* C9: Rollback leaves the working index, the column cache, the names of the
\* update queues, owner.fill and the columns as they were.
C9_RollbackFrame ==
  [][last'.op = "Rollback" =>
       /\ txn'[last'.txn].index = txn[last'.txn].index
       /\ txn'[last'.txn].columns = txn[last'.txn].columns
       /\ QueueNames(txn'[last'.txn]) = QueueNames(txn[last'.txn])
       /\ fill' = fill
       /\ cols' = cols]_vars

C9_Witness ==
  /\ last.op = "Rollback"
  /\ last.note
  /\ txn[last.txn].index # {}
  /\ txn[last.txn].updates # <<>>

\* C10: With(c, extra...) leaves in the index the rows that were in it and are
\* present in every named column; when a named column is not registered, in any
\* position, the index is empty and Count() is 0.
Named(names) == {names[i] : i \in DOMAIN names}

C10_With ==
  [][last'.op = "With" =>
       LET T == txn'[last'.txn]
           names == Named(last'.note.names)
       IN IF names \subseteq DOMAIN cols
            THEN T.index = {x \in txn[last'.txn].index : \A n \in names : x \in Presence(cols[n])}
            ELSE T.index = {} /\ Count(T) = 0]_vars

C10_Witness ==
  /\ last.op = "With"
  /\ Len(last.note.names) = 2
  /\ last.note.names[1] \in DOMAIN cols
  /\ last.note.names[2] \notin DOMAIN cols
  /\ last.note.index \cap Presence(cols[last.note.names[1]]) # {}
  /\ Count(txn[last.txn]) = 0

\* the presence bitmaps of the registered columns among names, OR-ed together
Existing(names) == UNION {Presence(cols[n]) : n \in Named(names) \cap DOMAIN cols}

\* C11: Without(c, extra...) leaves in the index the rows that were in it and are
\* present in none of the named registered columns; names that are not registered
\* are skipped, so a call naming only missing columns leaves the index unchanged.
C11_Without ==
  [][last'.op = "Without" =>
       txn'[last'.txn].index = last'.note.index \ Existing(last'.note.names)]_vars

C11_Witness ==
  /\ last.op = "Without"
  /\ Len(last.note.names) = 2
  /\ last.note.names[1] \notin DOMAIN cols
  /\ last.note.names[2] \in DOMAIN cols
  /\ txn[last.txn].index # last.note.index
  /\ txn[last.txn].index # {}
  /\ txn[last.txn].index \cap Presence(cols[last.note.names[2]]) = {}

\* C12: Union(c, extra...) leaves in the index the rows that were in it and the
\* rows present in a named registered column, and nothing else; names that are
\* not registered are skipped.
C12_Union ==
  [][last'.op = "Union" =>
       txn'[last'.txn].index = last'.note.index \cup Existing(last'.note.names)]_vars

C12_Witness ==
  /\ last.op = "Union"
  /\ Len(last.note.names) = 2
  /\ last.note.names[1] \notin DOMAIN cols
  /\ last.note.names[2] \in DOMAIN cols
  /\ txn[last.txn].index # last.note.index
  /\ Presence(cols[last.note.names[2]]) \subseteq txn[last.txn].index

\* the rows of index at which column c holds a value that predicate accepts
Accepted(index, c, predicate) ==
  {x \in index : x \in Presence(cols[c]) /\ cols[c][x] \in predicate}

\* C13: WithValue(c, pred) keeps exactly the rows of the index at which c holds a
\* value that pred accepts, and changes nothing when c is not registered;
\* WithFloat/WithInt/WithUint do the same and change nothing when c is not
\* registered or has no numeric capability; the new index is within the old one.
C13_WithValue ==
  [][last'.op \in {"WithValue"} \cup TypedFilters =>
       LET c == last'.note.names[1]
           old == last'.note.index
           new == txn'[last'.txn].index
           filters == /\ c \in DOMAIN cols
                      /\ (last'.op \in TypedFilters => numerical(c))
       IN /\ new = IF filters THEN Accepted(old, c, last'.note.pred) ELSE old
          /\ new \subseteq old]_vars

C13_Witness ==
  /\ last.op = "WithValue"
  /\ last.note.names[1] \in DOMAIN cols
  /\ last.note.pred # {}
  /\ txn[last.txn].index # {}
  /\ txn[last.txn].index # last.note.index

\* the value the records us leave at row x, starting from the value v (absent: 0)
RECURSIVE Resolve(_, _, _)
Resolve(us, x, v) ==
  IF us = <<>> THEN v
  ELSE Resolve(Tail(us), x,
               IF Head(us).Index # x THEN v
               ELSE IF Head(us).Kind = UpdatePut THEN Head(us).Value ELSE v + Head(us).Value)

\* C14: Insert(object) takes an index j that is neither in fill nor in inserts,
\* sets j in inserts, appends one Put of object[k] at j to the queue of every key k
\* whose column is registered and leaves every other queue as it was; when Commit
\* returns (no concurrent writer), j is in fill and every registered column with
\* records for j holds at j the value they resolve to.
C14_Insert ==
  [][/\ (last'.op = "Insert" =>
          LET j == last'.note.idx
              object == last'.note.object
              T == txn[last'.txn]
              T1 == txn'[last'.txn]
          IN /\ j \notin fill \cup T.inserts
             /\ T1.inserts = T.inserts \cup {j}
             /\ \A k \in Names :
                  Records(T1.updates, k) =
                    IF k \in DOMAIN object \cap DOMAIN cols
                      THEN Append(Records(T.updates, k), Update(UpdatePut, j, object[k]))
                      ELSE Records(T.updates, k))
      /\ ((last'.op = "Commit" /\ mode.holders = 1) =>
          \A x \in last'.note.inserts :
            /\ x \in fill'
            /\ \A k \in DOMAIN cols :
                 (\E i \in DOMAIN Records(last'.note.updates, k) :
                     Records(last'.note.updates, k)[i].Index = x)
                   => /\ x \in Presence(cols'[k])
                      /\ cols'[k][x] = Resolve(Records(last'.note.updates, k), x, 0))]_vars

C14_Witness ==
  /\ last.op = "Commit"
  /\ mode.holders = 1
  /\ \E j \in last.note.inserts :
       /\ j \in fill
       /\ Records(last.note.updates, "a") = <<Update(UpdatePut, j, 1)>>
       /\ Records(last.note.updates, "z") = <<>>
       /\ cols["a"][j] = 1

\* C15: right after Insert has returned the index j, j is not in the inserting
\* Txn's working bitmap: ReadAt(j) and DeleteAt(j) return false and DeleteAt(j)
\* leaves deletes unchanged.
C15_InsertedRowHidden ==
  last.op = "Insert" =>
    /\ ~ReadAtOk(txn[last.txn], last.note.idx)
    /\ ~DeleteAtOk(txn[last.txn], last.note.idx)
    /\ DeleteAt(txn[last.txn], last.note.idx).deletes = txn[last.txn].deletes

\* C16: DeleteAt(i) returns true and sets bit i in deletes exactly when i is in the
\* working bitmap, otherwise it returns false and leaves deletes as it was; either
\* way index, inserts, the update queues, fill and the columns stay as they were.
\* ReadAt(i) returns true exactly when i is in the working bitmap, and changes nothing.
C16_DeleteAt ==
  [][/\ (last'.op = "DeleteAt" =>
          LET T == txn[last'.txn]
              T1 == txn'[last'.txn]
              i == last'.note.i
          IN /\ last'.note.ok = (i \in T.index)
             /\ T1.deletes = IF i \in T.index THEN T.deletes \cup {i} ELSE T.deletes
             /\ T1.index = T.index /\ T1.inserts = T.inserts /\ T1.updates = T.updates
             /\ fill' = fill /\ cols' = cols)
      /\ (last'.op = "ReadAt" =>
          /\ last'.note.ok = (last'.note.i \in txn[last'.txn].index)
          /\ txn' = txn /\ fill' = fill /\ cols' = cols)]_vars

C16_Witness ==
  /\ last.op = "DeleteAt"
  /\ ~last.note.ok
  /\ txn[last.txn].index # {}
  /\ last.note.i \notin txn[last.txn].deletes

\* a run in which no Txn is filtered and at most one goroutine holds a Txn
Unfiltered == mode.calls \cap FilterOps = {}
SingleWriter == mode.holders = 1

\* DeleteIf(pred) adds to deletes exactly the rows of the working bitmap that pred
\* is true for, and DeleteAll() adds the whole working bitmap
DeleteIfDeleteAll ==
  /\ (last'.op = "DeleteIf" =>
        txn'[last'.txn].deletes =
          txn[last'.txn].deletes \cup (txn[last'.txn].index \cap last'.note.fn))
  /\ (last'.op = "DeleteAll" =>
        /\ txn'[last'.txn].deletes = txn[last'.txn].deletes \cup txn[last'.txn].index
        /\ txn'[last'.txn] = DeleteIf(txn[last'.txn], Rows))

\* C17, as stated: DeleteIf and DeleteAll as above, and DeleteAll(); Commit() on an
\* unfiltered Txn with no concurrent writer leaves fill empty.
C17_DeleteAllEmptiesFill ==
  [][/\ DeleteIfDeleteAll
      /\ ((last'.op = "Commit" /\ last'.note.after = "DeleteAll" /\ Unfiltered /\ SingleWriter)
            => fill' = {})]_vars

\* C17, amended: DeleteIf and DeleteAll as above, and DeleteAll(); Commit() on an
\* unfiltered Txn with no concurrent writer leaves in fill the rows the Txn had
\* pending in inserts and, besides them, no row of its working bitmap; a Txn
\* acquired afterwards counts exactly the rows of fill.
C17_DeleteAll ==
  [][/\ DeleteIfDeleteAll
      /\ ((last'.op = "Commit" /\ last'.note.after = "DeleteAll" /\ Unfiltered /\ SingleWriter)
            => /\ last'.note.inserts \subseteq fill'
               /\ (fill' \ last'.note.inserts) \cap txn[last'.txn].index = {})
      /\ ((last'.op = "aquireTxn" /\ SingleWriter) => Count(txn'[last'.txn]) = Cardinality(fill'))]_vars

C17_Witness ==
  /\ last.op = "Commit"
  /\ last.note.after = "DeleteAll"
  /\ Unfiltered /\ SingleWriter
  /\ last.note.deletes = Rows
  /\ fill = {}

\* the positions of the update queues named column
QueuesNamed(T, column) == {i \in DOMAIN T.updates : T.updates[i].name = column}

\* C18: Range(column, fn) returns an error exactly when the column is not
\* registered; then fn is not invoked and the Txn's update queues stay as they
\* were. Otherwise exactly one queue named after the column exists afterwards, at
\* the place it had if it existed before, and fn is invoked on the rows of the
\* working bitmap in ascending order, up to the first row it returns false on.
C18_Range ==
  [][last'.op = "Range" =>
       LET T == txn[last'.txn]
           T1 == txn'[last'.txn]
           c == last'.note.column
           v == last'.note.visits
       IN /\ last'.note.err = (c \notin DOMAIN cols)
          /\ last'.note.err => (v = <<>> /\ T1 = T)
          /\ ~last'.note.err =>
               /\ Cardinality(QueuesNamed(T1, c)) = 1
               /\ QueuesNamed(T, c) \subseteq QueuesNamed(T1, c)
               /\ \A i, j \in DOMAIN v : i < j => v[i] < v[j]
               /\ {v[i] : i \in DOMAIN v} =
                    {x \in T.index : \A y \in T.index : y < x => y < last'.note.halt}]_vars

C18_Witness ==
  /\ last.op = "Range"
  /\ ~last.note.err
  /\ last.note.visits = <<0>>
  /\ txn[last.txn].index = Rows
  /\ Cardinality(QueuesNamed(txn[last.txn], last.note.column)) = 1
  /\ Len(txn[last.txn].updates) = 2

\* the sequence old is the start of the sequence new
Prefix(old, new) == Len(old) <= Len(new) /\ SubSeq(new, 1, Len(old)) = old

\* the records us hold no Add
OnlyPuts(us) == \A i \in DOMAIN us : us[i].Kind = UpdatePut

\* C19: the Cursor operations append their records at the end of the queue, in
\* the order of the callback's invocations, and updatePending leaves at every row
\* of a registered column the value its queue's records resolve to when applied
\* one after the other in that order (a Put replaces, an Add increments).
C19_UpdateOrder ==
  [][/\ (last'.op = "Range" =>
          \A k \in Names :
            LET old == Records(txn[last'.txn].updates, k)
                new == Records(txn'[last'.txn].updates, k)
            IN /\ Prefix(old, new)
               /\ \A i, j \in DOMAIN new : (Len(old) < i /\ i < j) => new[i].Index < new[j].Index)
      /\ (last'.op = "updatePending" =>
          \A k \in DOMAIN cols :
            LET us == Records(txn[last'.txn].updates, k)
            IN (numerical(k) \/ OnlyPuts(us)) =>
                 \A x \in Rows :
                   IF x \in Presence(cols[k]) \/ \E i \in DOMAIN us : us[i].Index = x
                     THEN /\ x \in Presence(cols'[k])
                          /\ cols'[k][x] =
                               Resolve(us, x, IF x \in Presence(cols[k]) THEN cols[k][x] ELSE 0)
                     ELSE x \notin Presence(cols'[k]))]_vars

C19_Witness ==
  /\ last.op = "Commit"
  /\ \E x \in Rows :
       /\ Records(last.note.updates, expireColumn) =
            <<Update(UpdatePut, x, 1), Update(UpdateAdd, x, 1)>>
       /\ cols[expireColumn][x] = 2

\* C20: Intersect(&bm) leaves in bm the rows that were in it and are present in
\* the column, Difference(&bm) the rows that were in it and are not present,
\* Union(&bm) the rows that were in it or are present; the column stays as it was.
C20_ColumnSetOps ==
  [][/\ (last'.op = "Intersect" =>
          other' = {x \in last'.note.bm : x \in DOMAIN numbers} /\ numbers' = numbers)
      /\ (last'.op = "Difference" =>
          other' = {x \in last'.note.bm : x \notin DOMAIN numbers} /\ numbers' = numbers)
      /\ (last'.op = "Union" =>
          other' = {x \in Rows : x \in last'.note.bm \/ x \in DOMAIN numbers} /\ numbers' = numbers)]_vars

C20_Witness ==
  /\ last.op = "Intersect"
  /\ last.note.bm = Rows
  /\ DOMAIN numbers = {MaxRow}
  /\ other = {MaxRow}
\* the four reads of the column at idx
ReadsAt(c, n, idx) == {ReadAs(kind, c, n, idx) : kind \in Reads}

\* C21: after Update(i, v), Contains(i) is true, the storage covers i and Value,
\* Float64, Int64 and Uint64 at i return v with true; after Delete(i), and after
\* DeleteMany(bm) for every i in bm, the four reads at i return zero with false;
\* a read returns a stored value or zero at every row, also past the storage.
C21_ReadConsistency ==
  [][/\ (last'.op = "Update" =>
          /\ Contains(numbers', last'.note.idx)
          /\ size' > last'.note.idx
          /\ ReadsAt(numbers', size', last'.note.idx) = {[v |-> last'.note.value, ok |-> TRUE]})
      /\ (last'.op = "Delete" =>
          ReadsAt(numbers', size', last'.note.idx) = {[v |-> 0, ok |-> FALSE]})
      /\ (last'.op = "DeleteMany" =>
          \A i \in last'.note.bm : ReadsAt(numbers', size', i) = {[v |-> 0, ok |-> FALSE]})
      /\ (last'.op \in Reads =>
          /\ last'.note.read.v \in Stored /\ last'.note.read.ok \in BOOLEAN
          /\ last'.note.read.ok = Contains(numbers, last'.note.idx)
          /\ (~last'.note.read.ok => last'.note.read.v = 0)
          /\ ((last.op = "Update" /\ last.note.idx = last'.note.idx)
                => last'.note.read = [v |-> last.note.value, ok |-> TRUE])
          /\ ((last.op = "Delete" /\ last.note.idx = last'.note.idx)
                => last'.note.read = [v |-> 0, ok |-> FALSE])
          /\ ((last.op = "DeleteMany" /\ last'.note.idx \in last.note.bm)
                => last'.note.read = [v |-> 0, ok |-> FALSE]))]_vars

C21_Witness ==
  /\ last.op = "Int64"
  /\ last.note.idx = MaxRow
  /\ last.note.read = [v |-> 0, ok |-> FALSE]
  /\ size = MaxRow + 1
  /\ numbers # <<>>
\* the rows the update records a Txn has queued, or is committing, are for
RECURSIVE QueueRows(_)
QueueRows(qs) ==
  IF qs = <<>> THEN {}
  ELSE {Head(qs).update[i].Index : i \in DOMAIN Head(qs).update} \cup QueueRows(Tail(qs))

\* C22: within one Commit, DeleteMany on every registered column and then
\* fill := fill minus deletes are complete, and deletes is cleared, before
\* updatePending applies a record; and every record of a registered column is
\* applied, the inserted rows holding their values, before fill := fill OR inserts.
C22_PhaseOrder ==
  [][\A t \in Txns :
       /\ ((last'.txn = t /\ last'.op = "DeleteMany") =>
             /\ pc[t] = "held"
             /\ fill' = fill
             /\ \A k \in DOMAIN cols : Presence(cols'[k]) = Presence(cols[k]) \ txn[t].deletes)
       /\ ((last'.txn = t /\ last'.op = "AndNot") =>
             /\ fill' = fill \ commit[t].deletes
             /\ cols' = cols
             /\ txn[t].updates = commit[t].updates)
       /\ ((last'.txn = t /\ last'.op = "updatePending") =>
             /\ txn[t].deletes = {}
             /\ fill \cap commit[t].deletes = {}
             /\ fill' = fill
             /\ txn[t].inserts = commit[t].inserts
             /\ (\A u \in Txns \ {t} :
                    (QueueRows(txn[u].updates) \cup QueueRows(commit[u].updates))
                       \cap commit[t].deletes = {})
                  => \A k \in DOMAIN cols : Presence(cols[k]) \cap commit[t].deletes = {})
       /\ ((last'.txn = t /\ last'.op = "Or") =>
             /\ fill' = fill \cup commit[t].inserts
             /\ cols' = cols
             /\ txn[t].deletes = {}
             /\ \A k \in DOMAIN cols : Records(txn[t].updates, k) = <<>>
             /\ \A j \in commit[t].inserts : \A k \in DOMAIN cols :
                  (\E i \in DOMAIN Records(commit[t].updates, k) :
                      Records(commit[t].updates, k)[i].Index = j)
                    => /\ j \in Presence(cols[k])
                       /\ cols[k][j] = Resolve(Records(commit[t].updates, k), j, 0))]_vars

C22_Witness ==
  /\ last.op = "Commit"
  /\ last.note.deletes # {}
  /\ last.note.inserts # {}
  /\ QueueLen(last.note.updates) > 0
  /\ last.note.inserts \subseteq fill
  /\ fill \cap last.note.deletes = {}

\* C24: owner.fill changes only in the AndNot of a delete phase and the Or of an
\* insert phase, by the goroutine that holds owner.lock, which releases it in its
\* next step; a goroutine holds the lock exactly at these places of Commit, so no
\* two change fill at once and none holds it across phases; and every Commit
\* returns, with the lock released.
C24_FillLock ==
  /\ [][fill' # fill =>
          /\ lock = last'.txn
          /\ lock' = lock
          /\ pc[lock] \in {"AndNot", "Or"}
          /\ fill' = IF pc[lock] = "AndNot" THEN fill \ txn[lock].deletes
                                           ELSE fill \cup txn[lock].inserts
          /\ pc'[lock] \in {"UnlockDelete", "UnlockInsert"}]_vars
  /\ [][\A t \in Txns : (pc[t] \in {"UnlockDelete", "UnlockInsert"} /\ pc'[t] # pc[t]) =>
                          (lock = t /\ lock' = "")]_vars
  /\ [](\A t \in Txns : (lock = t) <=> (pc[t] \in Locked))
  /\ \A t \in Txns : (pc[t] = "held") ~> (pc[t] = "done" /\ lock # t)
  /\ <>[](lock = "" /\ \A t \in Txns : pc[t] = "done")

C24_Witness ==
  \E t, u \in Txns :
    /\ pc[t] = "Or"
    /\ lock = t
    /\ pc[u] = "LockDelete"
    /\ txn[u].deletes # {}
\* the rows a Txn W has inserted whose records are not yet applied to the columns
Unapplied(W) ==
  IF pc[W] \in {"held", "update"}
    THEN {j \in txn[W].inserts :
            \E k \in DOMAIN cols : \E i \in DOMAIN Records(txn[W].updates, k) :
              Records(txn[W].updates, k)[i].Index = j}
    ELSE {}

\* C23: a row inserted by a Txn W is in the working index of another Txn R,
\* whenever R was acquired, only if every record W queued for the row has been
\* applied to its column.
C23_NoHalfRow ==
  \A R, W \in Txns :
    (R # W /\ pc[R] = "held") => txn[R].index \cap Unapplied(W) = {}
\* C25: the working index of a held Txn contains no row that was outside
\* owner.fill when the Txn took its snapshot, unless the Txn inserted the row.
C25_WorkingBitmap ==
  Snapshots =>
    \A t \in Txns : pc[t] \in Holding => txn[t].index \subseteq snap[t].fill \cup snap[t].own
\* C26: in every state of a held Txn, after any sequence of filters, deletes,
\* inserts, Commit and Rollback, deletes is a subset of index OR inserts.
C26_DeleteQueue ==
  \A t \in Txns : pc[t] \in Holding => txn[t].deletes \subseteq txn[t].index \cup txn[t].inserts
\* C27: every row an update record of a Txn is for, in any of its queues, is in
\* owner.fill or in the Txn's inserts, in every state up to the end of its Commit.
C27_UpdateQueue ==
  \A t \in Txns :
    pc[t] \in Holding => QueueRows(txn[t].updates) \subseteq fill \cup txn[t].inserts
\* the rows of a Txn's pending inserts that held a row before: a row in the
\* working index of a held Txn was in fill when that Txn took its snapshot (in the
\* runs without Union), and next() hands out only rows outside fill, so a Txn
\* deleted the row and committed before the insert
Reallocated(rows) ==
  {r \in rows : \E u \in Txns : pc[u] \in Holding /\ r \in txn[u].index}

\* C28: when a Txn has deleted row r and committed, and a Txn inserts a row that
\* is allocated the index r afterwards and commits, then at the end of that Commit
\* r is in fill, every column the insert wrote holds the inserted value at r, and
\* no other column holds a value at r.
C28_DeleteThenInsert ==
  [][(last'.op = "Commit" /\ ~Snapshots) =>
       \A r \in Reallocated(last'.note.inserts) :
         /\ r \in fill'
         /\ \A k \in DOMAIN cols :
              IF \E i \in DOMAIN Records(last'.note.updates, k) :
                   Records(last'.note.updates, k)[i].Index = r
                THEN /\ r \in Presence(cols'[k])
                     /\ cols'[k][r] = Resolve(Records(last'.note.updates, k), r, 0)
                ELSE r \notin Presence(cols'[k])]_vars
====
